---- MODULE Spec2Model ----
(***************************************************************************)
(* Request pipeline of the PlayStudy API: the in-memory rate limit store,  *)
(* the rate limiting, authentication and logging middleware, the exception *)
(* handlers, the hard get_current_user dependency and the user repository  *)
(* with the table behind it.                                               *)
(*                                                                         *)
(* Strings that the code inspects (paths, header values, store keys) are   *)
(* sequences of one-character strings so that startswith, split, strip and *)
(* concatenation are computed, not assumed.  An optional value is <<>>     *)
(* (None) or <<v>>.  Time is in whole seconds.                             *)
(***************************************************************************)
EXTENDS Integers, Sequences, FiniteSets, TLC

(* ------------------------------ bounds --------------------------------- *)
\* concurrently in-flight requests
MaxInFlight == 2
\* requests accepted over a behaviour
MaxRequests == 5
\* clock advances over a behaviour
MaxTicks == 2
\* tokens login hands out over a behaviour
MaxIssued == 2
\* requests of one burst
MaxBurst == 4
\* requests followed through the logging stage over a behaviour
MaxLogged == 4
\* times one request's client id is resolved
MaxResolves == 2
\* repository workers
MaxWorkers == 2
\* repository calls over a behaviour
MaxOps == 4
\* requests that carry credentials over a behaviour
MaxCredentialed == 3
\* requests to the owner-only routes
MaxOwner == 3
\* settings.RATE_LIMIT_REQUESTS, scaled down (the default is 100)
max_requests == 3

(* ------------------------- program constants --------------------------- *)
\* settings.RATE_LIMIT_PERIOD
period == 60
\* InMemoryStore.cleanup_interval
cleanup_interval == 3600
\* settings.ACCESS_TOKEN_EXPIRE_MINUTES, in seconds
ACCESS_TOKEN_EXPIRE == 1800
\* settings.REFRESH_TOKEN_EXPIRE_DAYS, in seconds
REFRESH_TOKEN_EXPIRE == 604800
\* settings.RATE_LIMIT_ENABLED
enabled == TRUE
\* update_xp: XP per level and the highest level
XP_PER_LEVEL == 100
MAX_LEVEL == 100

(* ------------------------------ strings -------------------------------- *)
\* str.startswith
StartsWith(s, p) == Len(p) <= Len(s) /\ SubSeq(s, 1, Len(p)) = p

\* index of the first c in s, or 0
RECURSIVE IndexFrom(_, _, _)
IndexFrom(s, c, i) ==
    IF i > Len(s) THEN 0
    ELSE IF s[i] = c THEN i
    ELSE IndexFrom(s, c, i + 1)

\* s.split(",")[0]
SplitFirst(s, c) ==
    LET i == IndexFrom(s, c, 1)
    IN  IF i = 0 THEN s ELSE SubSeq(s, 1, i - 1)

\* str.strip (blanks only)
RECURSIVE Strip(_)
Strip(s) ==
    IF s = <<>> THEN s
    ELSE IF Head(s) = " " THEN Strip(Tail(s))
    ELSE IF s[Len(s)] = " " THEN Strip(SubSeq(s, 1, Len(s) - 1))
    ELSE s

API_V1_STR == <<"/", "a", "p", "i", "/", "v", "1">>

PathRoot == <<"/">>
PathHealth == <<"/", "h", "e", "a", "l", "t", "h">>
PathDocs == <<"/", "d", "o", "c", "s">>
PathOpenapi == <<"/", "o", "p", "e", "n", "a", "p", "i", ".", "j", "s", "o", "n">>
PathRedoc == <<"/", "r", "e", "d", "o", "c">>
\* the prefix of the users router and the path of its /{user_id} routes
PathUsers == API_V1_STR \o <<"/", "u", "s", "e", "r", "s", "/">>
PathUser(id) == PathUsers \o id
\* the user_id path parameter of /{user_id}
path_user_id(path) == SubSeq(path, Len(PathUsers) + 1, Len(path))
PathMe == API_V1_STR \o <<"/", "u", "s", "e", "r", "s", "/", "m", "e">>
PathLogin == API_V1_STR \o <<"/", "a", "u", "t", "h", "/", "l", "o", "g", "i", "n">>
\* the asterisk-form request target of OPTIONS *, the one path without a leading "/"
PathAsterisk == <<"*">>
PathStatic == <<"/", "s", "t", "a", "t", "i", "c">>
PathRegister == API_V1_STR \o
    <<"/", "a", "u", "t", "h", "/", "r", "e", "g", "i", "s", "t", "e", "r">>

\* peer addresses and X-Forwarded-For values a request may carry
Host1 == <<"1", ".", "2">>
Host2 == <<"5", ".", "6">>
Forwarded12 == Host1 \o <<",", " ">> \o Host2

User1 == <<"u", "1">>
User2 == <<"u", "2">>
UserIds == {User1, User2}

(* --------------------------- rate limit store -------------------------- *)
\* a cleanup that drops every entry
cleanup_everything(S, t) ==
    IF t - S.last_cleanup > cleanup_interval
    THEN [store |-> <<>>, last_cleanup |-> t]
    ELSE S

\* InMemoryStore._cleanup: S is [store, last_cleanup], t is time.time()
cleanup(S, t) ==
    IF t - S.last_cleanup > cleanup_interval
    THEN [store |-> [k \in {j \in DOMAIN S.store : S.store[j][2] > t} |-> S.store[k]],
          last_cleanup |-> t]
    ELSE S

\* InMemoryStore.get: the store after the call and the (count, expiry) returned
get(S, key, t) ==
    LET C == cleanup(S, t)
    IN  [S |-> C,
         value |-> IF key \in DOMAIN C.store THEN C.store[key] ELSE <<0, 0>>]

\* the counter written by one more hit
IncrementLost(count) == count

IncrementTwice(count) == count + 2

NextCount(count) == count + 1

\* an increment on one counter shared by every key
increment_every_key(S, key, expiry, t) ==
    LET C == cleanup(S, t)
        count == NextCount(IF key \in DOMAIN C.store THEN C.store[key][1] ELSE 0)
    IN  [S |-> [store |-> (key :> <<count, t + expiry>>)
                          @@ [k \in DOMAIN C.store |-> <<count, t + expiry>>],
                last_cleanup |-> C.last_cleanup],
         value |-> <<count, t>>]

\* InMemoryStore.increment: the store after the call and (count, timestamp)
increment(S, key, expiry, t) ==
    LET C == cleanup(S, t)
        count == NextCount(IF key \in DOMAIN C.store THEN C.store[key][1] ELSE 0)
    IN  [S |-> [store |-> (key :> <<count, t + expiry>>) @@ C.store,
                last_cleanup |-> C.last_cleanup],
         value |-> <<count, t>>]

(* ----------------------- rate limiting middleware ---------------------- *)
\* a resolver that looks at the forwarded header before the user id
get_client_id_forwarded_first(user_id, forwarded, client) ==
    IF forwarded # <<>> /\ forwarded[1] # <<>>
    THEN <<"i", "p", ":">> \o Strip(SplitFirst(forwarded[1], ","))
    ELSE IF user_id # <<>>
    THEN <<"u", "s", "e", "r", ":">> \o user_id[1]
    ELSE <<"i", "p", ":">> \o
         (IF client # <<>> THEN client[1] ELSE <<"u", "n", "k", "n", "o", "w", "n">>)

\* RateLimitingMiddleware._get_client_id
get_client_id(user_id, forwarded, client) ==
    IF user_id # <<>>
    THEN <<"u", "s", "e", "r", ":">> \o user_id[1]
    ELSE <<"i", "p", ":">> \o
         (IF forwarded # <<>> /\ forwarded[1] # <<>>
          THEN Strip(SplitFirst(forwarded[1], ","))
          ELSE IF client # <<>> THEN client[1]
          ELSE <<"u", "n", "k", "n", "o", "w", "n">>)

\* a skip test with an empty allow-list
should_skip_nothing(path) == FALSE

\* RateLimitingMiddleware._should_skip_rate_limit
should_skip_rate_limit(path) ==
    \E p \in {PathDocs, PathOpenapi, PathRedoc, PathHealth} : StartsWith(path, p)

\* key = f"ratelimit:{client_id}:{request.url.path}"
RateLimitKey(client_id, path) ==
    <<"r", "a", "t", "e", "l", "i", "m", "i", "t", ":">> \o client_id \o <<":">> \o path

\* the limit test of __call__
OverLimitOnly(count) == count > max_requests

AtLimit(count) == count >= max_requests


(* ------------------------------- tokens -------------------------------- *)
\* a string that is no JWT at all
Garbage == [kind |-> "garbage", sig |-> "bad", sub |-> <<>>, exp |-> 0, type |-> "None"]

\* security.create_access_token, called at time t
create_access_token(subject, t) ==
    [kind |-> "jwt", sig |-> "good", sub |-> subject,
     exp |-> t + ACCESS_TOKEN_EXPIRE, type |-> "None"]

\* security.create_refresh_token, called at time t
create_refresh_token(subject, t) ==
    [kind |-> "jwt", sig |-> "good", sub |-> subject,
     exp |-> t + REFRESH_TOKEN_EXPIRE, type |-> "refresh"]

\* an access token signed with another key
Forged == [create_access_token(User1, 0) EXCEPT !.sig = "bad"]

\* jose's jwt.decode: signature and exp are verified, a failure is a JWTError
jwt_decode(token, t) ==
    IF token.kind # "jwt" \/ token.sig # "good" \/ token.exp < t
    THEN [exc |-> "JWTError", payload |-> Garbage]
    ELSE [exc |-> "None", payload |-> token]

\* security.decode_token: a JWTError leaves as a ValueError
decode_token(token, t) ==
    LET d == jwt_decode(token, t)
    IN  IF d.exc = "JWTError" THEN [exc |-> "ValueError", payload |-> Garbage] ELSE d

\* the Authorization header: its scheme and parameter; scheme "None" is a
\* request with no such header
NoAuth == [scheme |-> "None", token |-> Garbage]

(* ---------------------- authentication middleware ---------------------- *)
\* the list of _should_skip_auth
public_paths ==
    {PathLogin, PathRegister,
     API_V1_STR \o PathDocs,
     API_V1_STR \o PathOpenapi,
     PathDocs, PathOpenapi, PathRoot, PathHealth}

\* AuthenticationMiddleware._should_skip_auth
should_skip_auth(path) ==
    \E p \in public_paths : StartsWith(path, p)

\* AuthenticationMiddleware.__call__ up to its call of the next app:
\* exc is what the stage raises, user_id what it leaves in scope["state"]
authenticate(q, t) ==
    IF should_skip_auth(q.path) THEN [exc |-> "None", user_id |-> q.user_id]
    ELSE IF q.auth.scheme # "Bearer" THEN [exc |-> "None", user_id |-> q.user_id]
    ELSE LET d == decode_token(q.auth.token, t)
         IN  IF d.exc # "None" THEN [exc |-> d.exc, user_id |-> q.user_id]
             ELSE IF d.payload.exp < t THEN [exc |-> "None", user_id |-> q.user_id]
             ELSE [exc |-> "None", user_id |-> <<d.payload.sub>>]

(* ------------------------ hard authentication -------------------------- *)
\* BaseRepository.get on the users table
repository_get(tbl, id) ==
    IF id \in DOMAIN tbl
    THEN [exc |-> "None", user |-> <<id>>]
    ELSE [exc |-> "ResourceNotFoundException", user |-> <<>>]

\* authentication.get_current_user
get_current_user(auth, tbl, t) ==
    IF auth.scheme # "Bearer"
    THEN [exc |-> "AuthenticationException", user |-> <<>>]
    ELSE LET d == decode_token(auth.token, t)
         IN  IF d.exc # "None" THEN [exc |-> d.exc, user |-> <<>>]
             ELSE IF d.payload.exp < t
             THEN [exc |-> "AuthenticationException", user |-> <<>>]
             ELSE repository_get(tbl, d.payload.sub)

(* --------------------------- error envelopes --------------------------- *)
BaseAPIExceptions ==
    {"ResourceNotFoundException", "AuthenticationException", "AuthorizationException",
     "ValidationException", "RateLimitException", "ServerException"}

\* str(exc): the detail an exception is raised with
ExcMessage(exc) ==
    CASE exc = "ResourceNotFoundException" -> "User not found"
      [] exc = "AuthenticationException" -> "Authentication failed"
      [] exc = "AuthorizationException" -> "Not authorized to access this resource"
      [] exc = "ValidationException" -> "Validation failed"
      [] exc = "RateLimitException" -> "Rate limit exceeded"
      [] exc = "ServerException" -> "Internal server error"
      [] exc = "ValueError" -> "Invalid token"
      [] OTHER -> "None"

\* exceptions.exception_handler: the envelope of a BaseAPIException
exception_handler(exc) ==
    CASE exc = "ResourceNotFoundException" ->
            [status |-> 404, code |-> "RESOURCE_NOT_FOUND", challenge |-> FALSE,
             message |-> ExcMessage(exc)]
      [] exc = "AuthenticationException" ->
            [status |-> 401, code |-> "AUTHENTICATION_FAILED", challenge |-> TRUE,
             message |-> ExcMessage(exc)]
      [] exc = "AuthorizationException" ->
            [status |-> 403, code |-> "AUTHORIZATION_FAILED", challenge |-> FALSE,
             message |-> ExcMessage(exc)]
      [] exc = "ValidationException" ->
            [status |-> 422, code |-> "VALIDATION_ERROR", challenge |-> FALSE,
             message |-> ExcMessage(exc)]
      [] exc = "RateLimitException" ->
            [status |-> 429, code |-> "RATE_LIMIT_EXCEEDED", challenge |-> FALSE,
             message |-> ExcMessage(exc)]
      [] OTHER ->
            [status |-> 500, code |-> "SERVER_ERROR", challenge |-> FALSE,
             message |-> ExcMessage(exc)]

\* an outermost handler that answers with the text of the exception
global_exception_handler_leaking ==
    [status |-> 500, code |-> "SERVER_ERROR", challenge |-> FALSE,
     message |-> "Invalid token"]

\* main.global_exception_handler
global_exception_handler ==
    [status |-> 500, code |-> "SERVER_ERROR", challenge |-> FALSE,
     message |-> "An unexpected error occurred"]

\* What the client receives for an exception.  The BaseAPIException handler
\* sits in the router's exception layer, inside every add_middleware stage:
\* it sees what a route raises; what a middleware raises reaches only the
\* outermost handler.  The router's own HTTPException is its 404 for a path
\* no route matches.
Surface(exc, origin) ==
    IF origin = "route" /\ exc \in BaseAPIExceptions
    THEN exception_handler(exc)
    ELSE IF origin = "route" /\ exc = "HTTPException"
    THEN [status |-> 404, code |-> "None", challenge |-> FALSE, message |-> "Not Found"]
    ELSE IF origin = "route" /\ exc = "HTTPException403"
    THEN [status |-> 403, code |-> "None", challenge |-> FALSE, message |-> "Not authorized"]
    ELSE IF origin = "route" /\ exc = "HTTPException404"
    THEN [status |-> 404, code |-> "None", challenge |-> FALSE, message |-> "User not found"]
    ELSE global_exception_handler

\* the exception is answered inside the stages' send wrappers: the router's
\* exception layer turned it into a response, or there was none
AnsweredInside(exc, origin) ==
    \/ exc = "None"
    \/ origin = "route" /\ exc \in BaseAPIExceptions
                              \cup {"HTTPException", "HTTPException403", "HTTPException404"}

(* --------------------------- logging middleware ------------------------ *)
\* RequestLoggingMiddleware._should_skip_logging
should_skip_logging(path) ==
    \E p \in {PathHealth, PathStatic} : StartsWith(path, p)

\* "except Exception" catches the exception; a cancellation is a
\* BaseException and passes it by
CaughtAsException(exc) == exc # "CancelledError"

\* an except clause that raises an exception of its own
raise_another(exc) == "ServerException"

\* the bare raise that ends the except clause
reraise(exc) == exc

\* a wrapper that sends an id generated anew
send_with_logging_new_id(message, request_id) ==
    [message EXCEPT !.headers = Append(@, <<"X-Request-ID", request_id + 1>>)]

\* send_with_logging on the http.response.start message
send_with_logging(message, request_id) ==
    [message EXCEPT !.headers = Append(@, <<"X-Request-ID", request_id>>)]

\* a wrapper that puts its headers in place of the ones already there
send_with_headers_overwriting(message, count, t) ==
    [message EXCEPT !.headers =
        << <<"X-RateLimit-Limit", max_requests>>,
           <<"X-RateLimit-Remaining", IF max_requests - count > 0 THEN max_requests - count ELSE 0>>,
           <<"X-RateLimit-Reset", t + period>> >>]

\* send_with_headers on the http.response.start message
send_with_headers(message, count, t) ==
    [message EXCEPT !.headers = @ \o
        << <<"X-RateLimit-Limit", max_requests>>,
           <<"X-RateLimit-Remaining", IF max_requests - count > 0 THEN max_requests - count ELSE 0>>,
           <<"X-RateLimit-Reset", t + period>> >>]

\* the headers main.add_security_headers sets
SecurityHeaders ==
    << <<"X-Content-Type-Options", "nosniff">>,
       <<"X-Frame-Options", "DENY">>,
       <<"X-XSS-Protection", "1; mode=block">>,
       <<"Strict-Transport-Security", "max-age=31536000; includeSubDomains">>,
       <<"Cache-Control", "no-store, no-cache, must-revalidate, max-age=0">>,
       <<"Pragma", "no-cache">> >>

\* response.headers[name] = value: the header of that name is replaced, or
\* the header is added
SetHeader(headers, h) ==
    IF \E i \in DOMAIN headers : headers[i][1] = h[1]
    THEN [i \in DOMAIN headers |-> IF headers[i][1] = h[1] THEN h ELSE headers[i]]
    ELSE Append(headers, h)

RECURSIVE SetHeaders(_, _)
SetHeaders(headers, hs) ==
    IF hs = <<>> THEN headers
    ELSE SetHeaders(SetHeader(headers, Head(hs)), Tail(hs))

\* main.add_security_headers on the response call_next returns
add_security_headers(message) ==
    [message EXCEPT !.headers = SetHeaders(@, SecurityHeaders)]

\* the headers of the JSONResponse the application answers with
AppHeaders(e) ==
    << <<"content-type", "application/json">> >> \o
    (IF e.challenge THEN << <<"WWW-Authenticate", "Bearer">> >> ELSE <<>>)

(* -------------------------------- state -------------------------------- *)
VARIABLES
    now,           \* time.time()
    ticks,         \* clock advances so far
    store,         \* InMemoryStore.store: key -> <<count, expiry>>
    last_cleanup,  \* InMemoryStore.last_cleanup
    admitted,      \* key -> requests forwarded since the key's entry was created
    reqs,          \* slot -> the request in flight there, or the one that ended there
    nreq,          \* requests accepted so far
    table,         \* the users table: id -> item
    issued,        \* tokens handed out by login
    ident,         \* a request whose client id is resolved, and the keys resolved
    ops            \* worker -> the repository call in progress there

vars == <<now, ticks, store, last_cleanup, admitted, reqs, nreq, table, issued, ident, ops>>

Slots == 1..MaxInFlight

\* a free slot; the fields after count are the outcome of a request that ended
Idle ==
    [pc |-> "idle", path |-> <<>>, client |-> <<>>, forwarded |-> <<>>, auth |-> NoAuth,
     user_id |-> <<>>, key |-> <<>>, count |-> 0, auth_calls |-> 0, rl_calls |-> 0,
     exc |-> "None", origin |-> "none", status |-> 0, code |-> "None",
     challenge |-> FALSE, handler |-> FALSE, user |-> <<>>,
     seq |-> 0, request_id |-> <<>>, state_request_id |-> <<>>, logged |-> FALSE,
     start_time |-> 0, log_calls |-> 0, records |-> <<>>, stages |-> <<>>,
     headers |-> <<>>, message |-> "None", raised |-> "None",
     method |-> "GET", body |-> <<>>]

\* the item add_test_user.py puts in the table
SeedUser ==
    [email |-> "test@example.com", name |-> "Test User", updated_at |-> <<>>,
     last_login |-> <<0>>, xp_points |-> 150, level |-> 2, games_played |-> 3]

\* the repository workers: processes that share the table
Workers == 1..MaxWorkers

\* a worker with no repository call in progress
NoOp ==
    [pc |-> "idle", user_id |-> <<>>, new_xp |-> 0, new_level |-> 0, games_played |-> 0,
     xp_increase |-> 0, email |-> "None", existing |-> <<>>, exc |-> "None"]

\* a request before its client id is resolved
NoIdent == [user_id |-> <<>>, forwarded |-> <<>>, client |-> <<>>, keys |-> <<>>]

Init ==
    /\ now = 0
    /\ ticks = 0
    /\ store = <<>>
    /\ last_cleanup = 0
    /\ admitted = <<>>
    /\ reqs = [r \in Slots |-> Idle]
    /\ nreq = 0
    /\ table = (User1 :> SeedUser)
    /\ issued = {}
    /\ ident = NoIdent
    /\ ops = [w \in Workers |-> NoOp]

\* A request ends.  A response made inside the stages travels out through
\* the send wrappers of the stages that installed one (logging, then rate
\* limiting) and through add_security_headers; the logging stage then logs
\* "completed".  An exception travels out through the logging stage's except
\* clause to the outermost handler, whose response passes no wrapper.  A
\* cancelled request gets no response.
CompleteWith(r, q, exc, origin, handler, user, status_code) ==
    LET inside == AnsweredInside(exc, origin)
        out == IF q.logged /\ ~inside /\ CaughtAsException(exc) THEN reraise(exc) ELSE exc
        e == IF out = "None"
             THEN [status |-> status_code, code |-> "None", challenge |-> FALSE,
                   message |-> "None"]
             ELSE IF CaughtAsException(out) THEN Surface(out, origin)
             ELSE [status |-> 0, code |-> "None", challenge |-> FALSE, message |-> "None"]
        start == [status |-> e.status,
                  headers |-> IF CaughtAsException(exc) THEN AppHeaders(e) ELSE <<>>]
        m1 == IF inside /\ q.logged THEN send_with_logging(start, q.request_id[1]) ELSE start
        m2 == IF inside /\ q.count > 0 THEN send_with_headers(m1, q.count, now) ELSE m1
        m3 == IF inside THEN add_security_headers(m2) ELSE m2
        duration_ms == (now - q.start_time) * 1000
        rec == IF ~q.logged THEN <<>>
               ELSE IF inside
               THEN <<[kind |-> "completed", request_id |-> q.request_id[1],
                       status_code |-> m1.status, duration_ms |-> duration_ms]>>
               ELSE IF CaughtAsException(exc)
               THEN <<[kind |-> "failed", request_id |-> q.request_id[1],
                       status_code |-> 0, duration_ms |-> duration_ms]>>
               ELSE <<>>
    IN  reqs' = [reqs EXCEPT ![r] =
                   [q EXCEPT !.pc = "done", !.exc = out, !.raised = exc, !.origin = origin,
                             !.status = e.status, !.code = e.code,
                             !.challenge = e.challenge, !.handler = handler,
                             !.user = user, !.message = e.message,
                             !.headers = m3.headers, !.records = @ \o rec,
                             !.start_time = 0]]

\* a request ends on a route whose status code is the default 200
Complete(r, q, exc, origin, handler, user) ==
    CompleteWith(r, q, exc, origin, handler, user, 200)

\* an HTTP request enters the middleware stack in a slot no request is using
ArriveWithMethod(r, method, body, path, client, forwarded, auth) ==
    /\ reqs[r].pc \in {"idle", "done"}
    /\ \A s \in Slots : s < r => reqs[s].pc \notin {"idle", "done"}
    /\ nreq < MaxRequests
    /\ nreq' = nreq + 1
    /\ reqs' = [reqs EXCEPT ![r] =
                  [Idle EXCEPT !.pc = "auth", !.path = path, !.client = client,
                               !.forwarded = forwarded, !.auth = auth,
                               !.seq = nreq + 1, !.method = method, !.body = body]]
    /\ UNCHANGED <<now, ticks, store, last_cleanup, admitted, table, issued, ident, ops>>

\* a GET request enters the stack
Arrive(r, path, client, forwarded, auth) ==
    ArriveWithMethod(r, "GET", <<>>, path, client, forwarded, auth)

\* PUT and DELETE requests to /users/{user_id}, with and without a token
ArriveOwner(r) ==
    /\ nreq < MaxOwner
    /\ \E target \in UserIds,
          m \in {<<"PUT", <<"New Name">>>>, <<"DELETE", <<>>>>},
          auth \in {NoAuth} \cup {[scheme |-> "Bearer", token |-> t] : t \in issued} :
           ArriveWithMethod(r, m[1], m[2], PathUser(target), <<Host1>>, <<>>, auth)

\* requests that differ in route and client address
ArriveAnonymous(r) ==
    \E path \in {PathMe, PathHealth},
       peer \in {<<<<>>, <<>>>>, <<<<Host2>>, <<Forwarded12>>>>} :
        Arrive(r, path, peer[1], peer[2], NoAuth)

\* the requests of a burst on one route
ArriveBurst(r) ==
    /\ nreq < MaxBurst
    /\ \E peer \in {<<<<>>, <<>>>>, <<<<Host2>>, <<Forwarded12>>>>} :
           Arrive(r, PathMe, peer[1], peer[2], NoAuth)

\* the Authorization headers a client can send
AuthHeaders ==
    {NoAuth, [scheme |-> "Bearer", token |-> Garbage], [scheme |-> "Bearer", token |-> Forged]}
    \cup {[scheme |-> "Bearer", token |-> t] : t \in issued}

\* requests that differ in credentials
ArriveWithCredentials(r) ==
    /\ nreq < MaxCredentialed
    /\ \E path \in {PathMe, PathAsterisk}, auth \in AuthHeaders :
        Arrive(r, path, <<Host1>>, <<>>, auth)

\* AuthenticationMiddleware.__call__
AuthenticationMiddleware(r) ==
    /\ reqs[r].pc = "auth"
    /\ LET q0 == reqs[r]
           q == [q0 EXCEPT !.stages = Append(@, "authentication")]
           a == authenticate(q0, now)
       IN  IF a.exc # "None"
           THEN Complete(r, q, a.exc, "middleware", FALSE, <<>>)
           ELSE reqs' = [reqs EXCEPT ![r] =
                           [q EXCEPT !.pc = "ratelimit", !.user_id = a.user_id,
                                     !.auth_calls = @ + 1]]
    /\ UNCHANGED <<now, ticks, store, last_cleanup, admitted, nreq, table, issued, ident, ops>>

\* RateLimitingMiddleware.__call__ up to its call of the next app.  Nothing is
\* awaited between store.get and store.increment, so the event loop runs
\* them as one step.
RateLimitingMiddleware(r) ==
    /\ reqs[r].pc = "ratelimit"
    /\ LET q == [reqs[r] EXCEPT !.stages = Append(@, "ratelimiting")]
           key == RateLimitKey(get_client_id(q.user_id, q.forwarded, q.client), q.path)
           g == get([store |-> store, last_cleanup |-> last_cleanup], key, now)
           i == increment(g.S, key, period, now)
       IN  IF ~enabled \/ should_skip_rate_limit(q.path)
           THEN /\ reqs' = [reqs EXCEPT ![r] = [q EXCEPT !.pc = "logging", !.rl_calls = @ + 1]]
                /\ UNCHANGED <<store, last_cleanup, admitted>>
           ELSE IF AtLimit(g.value[1])
           THEN /\ store' = g.S.store
                /\ last_cleanup' = g.S.last_cleanup
                /\ admitted' = [k \in DOMAIN g.S.store |-> admitted[k]]
                /\ Complete(r, [q EXCEPT !.key = key], "RateLimitException",
                            "middleware", FALSE, <<>>)
           ELSE /\ store' = i.S.store
                /\ last_cleanup' = i.S.last_cleanup
                /\ admitted' = [k \in DOMAIN i.S.store |->
                                  IF k # key THEN admitted[k]
                                  ELSE IF key \in DOMAIN g.S.store THEN admitted[key] + 1
                                  ELSE 1]
                /\ reqs' = [reqs EXCEPT ![r] =
                              [q EXCEPT !.pc = "logging", !.key = key,
                                        !.count = i.value[1], !.rl_calls = @ + 1]]
    /\ UNCHANGED <<now, ticks, nreq, table, issued, ident, ops>>

\* RequestLoggingMiddleware.__call__ up to its call of the next app: the
\* request id is uuid4, here the number of the request
RequestLoggingMiddleware(r) ==
    /\ reqs[r].pc = "logging"
    /\ LET q == [reqs[r] EXCEPT !.stages = Append(@, "logging")]
           request_id == q.seq
           s == [q EXCEPT !.request_id = <<request_id>>,
                          !.state_request_id = <<request_id>>,
                          !.log_calls = @ + 1, !.pc = "route"]
       IN  IF should_skip_logging(q.path)
           THEN reqs' = [reqs EXCEPT ![r] = s]
           ELSE reqs' = [reqs EXCEPT ![r] =
                           [s EXCEPT !.logged = TRUE, !.start_time = now,
                                     !.records = Append(@, [kind |-> "started",
                                                            request_id |-> request_id,
                                                            status_code |-> 0,
                                                            duration_ms |-> 0])]]
    /\ UNCHANGED <<now, ticks, store, last_cleanup, admitted, nreq, table, issued, ident, ops>>

\* the router: the route's dependencies, then its handler
Route(r) ==
    /\ reqs[r].pc = "route"
    /\ reqs[r].method = "GET"
    /\ LET q == [reqs[r] EXCEPT !.stages = Append(@, "router")]
           u == get_current_user(q.auth, table, now)
       IN  IF q.path = PathMe
           THEN IF u.exc # "None"
                THEN Complete(r, q, u.exc, "route", FALSE, <<>>)
                ELSE Complete(r, q, "None", "route", TRUE, u.user)
           ELSE IF q.path \in {PathRoot, PathHealth}
           THEN Complete(r, q, "None", "route", TRUE, <<>>)
           ELSE Complete(r, q, "HTTPException", "route", FALSE, <<>>)
    /\ UNCHANGED <<now, ticks, store, last_cleanup, admitted, nreq, table, issued, ident, ops>>

\* the task serving the request is cancelled while the handler runs
Cancel(r) ==
    /\ reqs[r].pc = "route"
    /\ Complete(r, [reqs[r] EXCEPT !.stages = Append(@, "router")],
                "CancelledError", "route", FALSE, <<>>)
    /\ UNCHANGED <<now, ticks, store, last_cleanup, admitted, nreq, table, issued, ident, ops>>

\* the clock moves on by d seconds
Tick(d) ==
    /\ ticks < MaxTicks
    /\ ticks' = ticks + 1
    /\ now' = now + d
    /\ UNCHANGED <<store, last_cleanup, admitted, reqs, nreq, table, issued, ident, ops>>

\* auth.login: the user is looked up by email and gets both tokens
login(u) ==
    /\ Cardinality(issued) < MaxIssued
    /\ u \in DOMAIN table
    /\ issued' = issued \cup {create_access_token(u, now), create_refresh_token(u, now)}
    /\ UNCHANGED <<now, ticks, store, last_cleanup, admitted, reqs, nreq, table, ident, ops>>

\* BaseRepository.delete on the users table
delete(u) ==
    /\ u \in DOMAIN table
    /\ table' = [k \in DOMAIN table \ {u} |-> table[k]]
    /\ UNCHANGED <<now, ticks, store, last_cleanup, admitted, reqs, nreq, issued, ident, ops>>

\* the slot of a client that sends one request at a time
Serial == {1}

\* the rate limiter over time: one request at a time, the clock moves
Next ==
    \/ \E r \in Serial : ArriveAnonymous(r)
    \/ \E r \in Slots : AuthenticationMiddleware(r)
    \/ \E r \in Slots : RateLimitingMiddleware(r)
    \/ \E r \in Slots : RequestLoggingMiddleware(r)
    \/ \E r \in Slots : Route(r)
    \/ \E d \in {1, period, cleanup_interval} : Tick(d)

Spec == Init /\ [][Next]_vars

\* the rate limiter under a burst: requests in flight together, one window
NextBurst ==
    \/ \E r \in Slots : ArriveBurst(r)
    \/ \E r \in Slots : AuthenticationMiddleware(r)
    \/ \E r \in Slots : RateLimitingMiddleware(r)
    \/ \E r \in Slots : RequestLoggingMiddleware(r)
    \/ \E r \in Slots : Route(r)

SpecBurst == Init /\ [][NextBurst]_vars

\* authentication: logins, credentials, token expiry and account deletion
NextAuth ==
    \/ \E r \in Serial : ArriveWithCredentials(r)
    \/ \E r \in Slots : AuthenticationMiddleware(r)
    \/ \E r \in Slots : RateLimitingMiddleware(r)
    \/ \E r \in Slots : RequestLoggingMiddleware(r)
    \/ \E r \in Slots : Route(r)
    \/ \E d \in {ACCESS_TOKEN_EXPIRE} : Tick(d)
    \/ \E u \in UserIds : login(u)
    \/ \E u \in UserIds : delete(u)

SpecAuth == Init /\ [][NextAuth]_vars

\* requests that differ in route and in what the route does with them
ArriveLogged(r) ==
    /\ nreq < MaxLogged
    /\ \E path \in {PathMe, PathRoot, PathHealth, PathStatic, PathAsterisk},
          auth \in {NoAuth, [scheme |-> "Bearer", token |-> Garbage]} :
           Arrive(r, path, <<Host1>>, <<>>, auth)

\* logging: responses, exceptions and cancellations on the way out
NextLog ==
    \/ \E r \in Serial : ArriveLogged(r)
    \/ \E r \in Slots : AuthenticationMiddleware(r)
    \/ \E r \in Slots : RateLimitingMiddleware(r)
    \/ \E r \in Slots : RequestLoggingMiddleware(r)
    \/ \E r \in Slots : Route(r)
    \/ \E r \in Slots : Cancel(r)
    \/ \E d \in {1} : Tick(d)

SpecLog == Init /\ [][NextLog]_vars

(* ------------------------- client id resolution ------------------------ *)
\* X-Forwarded-For values with blanks around the first entry, and an empty one
ForwardedBlanks == <<" ">> \o Host2 \o <<" ", ",">> \o Host1
ForwardedEmpty == <<>>

\* the request states _get_client_id can be handed
IdentInputs ==
    [user_id : {<<>>, <<User1>>, <<User2>>},
     forwarded : {<<>>, <<ForwardedEmpty>>, <<Host2>>, <<Forwarded12>>, <<ForwardedBlanks>>},
     client : {<<>>, <<Host1>>, <<Host2>>},
     keys : {<<>>}]

InitIdentity ==
    /\ now = 0
    /\ ticks = 0
    /\ store = <<>>
    /\ last_cleanup = 0
    /\ admitted = <<>>
    /\ reqs = [r \in Slots |-> Idle]
    /\ nreq = 0
    /\ table = (User1 :> SeedUser)
    /\ issued = {}
    /\ ident \in IdentInputs
    /\ ops = [w \in Workers |-> NoOp]

\* self._get_client_id(request), once more on the same request
resolve ==
    /\ Len(ident.keys) < MaxResolves
    /\ ident' = [ident EXCEPT !.keys =
                    Append(@, get_client_id(ident.user_id, ident.forwarded, ident.client))]
    /\ UNCHANGED <<now, ticks, store, last_cleanup, admitted, reqs, nreq, table, issued, ops>>

NextIdentity == resolve

SpecIdentity == InitIdentity /\ [][NextIdentity]_vars

(* --------------------------- user repository -------------------------- *)
\* a level computed without the upper clamp
calculate_level_unclamped(xp) == (xp \div XP_PER_LEVEL) + 1

\* min(max(1, int(new_xp / 100) + 1), 100); xp is never negative, so int()
\* rounds down
calculate_level(xp) ==
    LET l == (xp \div XP_PER_LEVEL) + 1
        m == IF l > 1 THEN l ELSE 1
    IN  IF m < MAX_LEVEL THEN m ELSE MAX_LEVEL

\* xp_increase values a client sends (UpdateXPRequest: gt=0)
XpIncreases == {100, 9850}

\* BaseRepository.update: the item must exist; the attributes named are set
\* in one update_item call, the others are left alone
update(tbl, id, updates) ==
    IF id \notin DOMAIN tbl THEN tbl
    ELSE [tbl EXCEPT ![id] =
            [a \in DOMAIN tbl[id] |->
               IF a \in DOMAIN updates THEN updates[a] ELSE tbl[id][a]]]

\* UserRepository.update_xp up to its call of update: the user is read and
\* the new XP and level are computed from what was read
update_xp_get(w, u, xp_increase) ==
    /\ ops[w].pc = "idle"
    /\ nreq < MaxOps
    /\ nreq' = nreq + 1
    /\ IF u \notin DOMAIN table
       THEN ops' = ops
       ELSE LET new_xp == table[u].xp_points + xp_increase
            IN  ops' = [ops EXCEPT ![w] =
                          [NoOp EXCEPT !.pc = "update_xp", !.user_id = <<u>>,
                                       !.new_xp = new_xp, !.xp_increase = xp_increase,
                                       !.new_level = calculate_level(new_xp)]]
    /\ UNCHANGED <<now, ticks, store, last_cleanup, admitted, reqs, table, issued, ident>>

\* UserRepository.update_xp: the call of update
update_xp_update(w) ==
    /\ ops[w].pc = "update_xp"
    /\ table' = update(table, ops[w].user_id[1],
                       [xp_points |-> ops[w].new_xp, level |-> ops[w].new_level,
                        updated_at |-> <<now>>])
    /\ ops' = [ops EXCEPT ![w] = NoOp]
    /\ UNCHANGED <<now, ticks, store, last_cleanup, admitted, reqs, nreq, issued, ident>>

\* UserRepository.increment_games_played up to its call of update
increment_games_played_get(w, u) ==
    /\ ops[w].pc = "idle"
    /\ nreq < MaxOps
    /\ nreq' = nreq + 1
    /\ IF u \notin DOMAIN table
       THEN ops' = ops
       ELSE ops' = [ops EXCEPT ![w] =
                      [NoOp EXCEPT !.pc = "games_played", !.user_id = <<u>>,
                                   !.games_played = table[u].games_played + 1]]
    /\ UNCHANGED <<now, ticks, store, last_cleanup, admitted, reqs, table, issued, ident>>

\* UserRepository.increment_games_played: the call of update
increment_games_played_update(w) ==
    /\ ops[w].pc = "games_played"
    /\ table' = update(table, ops[w].user_id[1],
                       [games_played |-> ops[w].games_played, updated_at |-> <<now>>])
    /\ ops' = [ops EXCEPT ![w] = NoOp]
    /\ UNCHANGED <<now, ticks, store, last_cleanup, admitted, reqs, nreq, issued, ident>>

\* UserRepository.update_profile with a name
update_profile(w, u, name) ==
    /\ ops[w].pc = "idle"
    /\ nreq < MaxOps
    /\ nreq' = nreq + 1
    /\ table' = update(table, u, [name |-> name, updated_at |-> <<now>>])
    /\ UNCHANGED <<now, ticks, store, last_cleanup, admitted, reqs, issued, ident, ops>>

(* --------------------------- owner-only routes ------------------------ *)
\* the class of the object the get_current_user dependency hands the
\* endpoint: UserService.get_user returns a UserResponse
CurrentUserType == "UserResponse"

\* obj["id"]: a dict gives its id, a pydantic model has no __getitem__
getitem_id(type, user) ==
    IF type = "dict"
    THEN [exc |-> "None", id |-> user[1]]
    ELSE [exc |-> "TypeError", id |-> <<>>]

\* users.update_user: PUT /users/{user_id}
update_user(r) ==
    /\ reqs[r].pc = "route"
    /\ reqs[r].method = "PUT"
    /\ LET q == [reqs[r] EXCEPT !.stages = Append(@, "router")]
           user_id == path_user_id(q.path)
           u == get_current_user(q.auth, table, now)
           c == getitem_id(CurrentUserType, u.user)
           updates == IF q.body # <<>>
                      THEN [updated_at |-> <<now>>, name |-> q.body[1]]
                      ELSE [updated_at |-> <<now>>]
       IN  IF u.exc # "None"
           THEN table' = table /\ Complete(r, q, u.exc, "route", FALSE, <<>>)
           ELSE IF c.exc # "None"
           THEN table' = table /\ Complete(r, q, c.exc, "route", FALSE, <<>>)
           ELSE IF user_id # c.id
           THEN table' = table /\ Complete(r, q, "HTTPException403", "route", FALSE, <<>>)
           ELSE IF user_id \notin DOMAIN table
           THEN table' = table /\ Complete(r, q, "HTTPException404", "route", FALSE, <<>>)
           ELSE /\ table' = update(table, user_id, updates)
                /\ Complete(r, q, "None", "route", TRUE, <<user_id>>)
    /\ UNCHANGED <<now, ticks, store, last_cleanup, admitted, nreq, issued, ident, ops>>

\* users.delete_user: DELETE /users/{user_id}
delete_user(r) ==
    /\ reqs[r].pc = "route"
    /\ reqs[r].method = "DELETE"
    /\ LET q == [reqs[r] EXCEPT !.stages = Append(@, "router")]
           user_id == path_user_id(q.path)
           u == get_current_user(q.auth, table, now)
           c == getitem_id(CurrentUserType, u.user)
       IN  IF u.exc # "None"
           THEN table' = table /\ Complete(r, q, u.exc, "route", FALSE, <<>>)
           ELSE IF c.exc # "None"
           THEN table' = table /\ Complete(r, q, c.exc, "route", FALSE, <<>>)
           ELSE IF user_id # c.id
           THEN table' = table /\ Complete(r, q, "HTTPException403", "route", FALSE, <<>>)
           ELSE IF user_id \notin DOMAIN table
           THEN table' = table /\ Complete(r, q, "HTTPException404", "route", FALSE, <<>>)
           ELSE /\ table' = [k \in DOMAIN table \ {user_id} |-> table[k]]
                /\ CompleteWith(r, q, "None", "route", TRUE, <<>>, 204)
    /\ UNCHANGED <<now, ticks, store, last_cleanup, admitted, nreq, issued, ident, ops>>

\* the owner-only routes: logins, then updates and deletions of accounts
NextOwner ==
    \/ \E r \in Serial : ArriveOwner(r)
    \/ \E r \in Slots : AuthenticationMiddleware(r)
    \/ \E r \in Slots : RateLimitingMiddleware(r)
    \/ \E r \in Slots : RequestLoggingMiddleware(r)
    \/ \E r \in Slots : update_user(r)
    \/ \E r \in Slots : delete_user(r)
    \/ \E u \in UserIds : login(u)

SpecOwner == Init /\ [][NextOwner]_vars

\* emails a client registers or logs in with
SeedEmail == "test@example.com"
NewEmail == "new@example.com"
Emails == {SeedEmail, NewEmail}

\* ids for items put in the table after the seeded one
NewIds == {<<"n", d>> : d \in {"1", "2", "3", "4", "5", "6"}}

\* UserRepository.get_by_email: the id of an item with that email, or None;
\* an exception of the index query is logged and None is returned
get_by_email(tbl, email, index_ok) ==
    LET found == {id \in DOMAIN tbl : tbl[id].email = email}
    IN  IF ~index_ok \/ found = {} THEN <<>>
        ELSE <<CHOOSE id \in found : TRUE>>

\* a constructor call that passes an id
new_user_with_id(email, id) ==
    [exc |-> "None",
     item |-> <<[email |-> email, name |-> "None", updated_at |-> <<>>, last_login |-> <<0>>,
                 xp_points |-> 0, level |-> 1, games_played |-> 0]>>]

\* User(email=..., ..., games_played=0): the dataclass has the field id
\* without a default and the call passes none, so the call raises TypeError
new_user(email, id) == [exc |-> "TypeError", item |-> <<>>]

\* UserRepository.create_or_update_user up to the branch on existing_user
\* (auth.google_login and users.create_user call it with the email given)
create_or_update_user_get(w, email, index_ok) ==
    /\ ops[w].pc = "idle"
    /\ nreq < MaxOps
    /\ nreq' = nreq + 1
    /\ ops' = [ops EXCEPT ![w] =
                  [NoOp EXCEPT !.pc = "create_or_update", !.email = email,
                               !.existing = get_by_email(table, email, index_ok)]]
    /\ UNCHANGED <<now, ticks, store, last_cleanup, admitted, reqs, table, issued, ident>>

\* auth.register up to its call of create_or_update_user: 409 when the email
\* is found
register(w, email, index_ok) ==
    /\ ops[w].pc = "idle"
    /\ nreq < MaxOps
    /\ nreq' = nreq + 1
    /\ ops' = [ops EXCEPT ![w] =
                  IF get_by_email(table, email, index_ok) # <<>>
                  THEN [NoOp EXCEPT !.email = email, !.exc = "HTTPException"]
                  ELSE [NoOp EXCEPT !.pc = "register", !.email = email]]
    /\ UNCHANGED <<now, ticks, store, last_cleanup, admitted, reqs, table, issued, ident>>

\* auth.register: create_or_update_user looks the email up once more
register_get(w, index_ok) ==
    /\ ops[w].pc = "register"
    /\ ops' = [ops EXCEPT ![w] =
                  [@ EXCEPT !.pc = "create_or_update",
                            !.existing = get_by_email(table, ops[w].email, index_ok)]]
    /\ UNCHANGED <<now, ticks, store, last_cleanup, admitted, reqs, nreq, table, issued, ident>>

\* UserRepository.create_or_update_user from the branch on: the user found
\* gets updated_at and last_login, or a new user is built and put
create_or_update_user_put(w) ==
    /\ ops[w].pc = "create_or_update"
    /\ LET email == ops[w].email
           fresh == CHOOSE id \in NewIds : id \notin DOMAIN table
           n == new_user(email, fresh)
       IN  IF ops[w].existing # <<>>
           THEN /\ table' = update(table, ops[w].existing[1],
                                   [updated_at |-> <<now>>, last_login |-> <<now>>])
                /\ ops' = [ops EXCEPT ![w] = [NoOp EXCEPT !.email = email]]
           ELSE IF n.exc # "None"
           THEN /\ table' = table
                /\ ops' = [ops EXCEPT ![w] = [NoOp EXCEPT !.email = email, !.exc = n.exc]]
           ELSE /\ table' = (fresh :> n.item[1]) @@ table
                /\ ops' = [ops EXCEPT ![w] = [NoOp EXCEPT !.email = email]]
    /\ UNCHANGED <<now, ticks, store, last_cleanup, admitted, reqs, nreq, issued, ident>>

\* the repository under calls that interleave
NextUsers ==
    \/ \E w \in Workers, u \in UserIds, x \in XpIncreases : update_xp_get(w, u, x)
    \/ \E w \in Workers : update_xp_update(w)
    \/ \E w \in Workers, u \in UserIds : increment_games_played_get(w, u)
    \/ \E w \in Workers : increment_games_played_update(w)
    \/ \E w \in Workers, u \in UserIds : update_profile(w, u, "Renamed")
    \/ \E w \in Workers, email \in Emails, index_ok \in BOOLEAN :
           create_or_update_user_get(w, email, index_ok)
    \/ \E w \in Workers, email \in Emails, index_ok \in BOOLEAN : register(w, email, index_ok)
    \/ \E w \in Workers, index_ok \in BOOLEAN : register_get(w, index_ok)
    \/ \E w \in Workers : create_or_update_user_put(w)

SpecUsers == Init /\ [][NextUsers]_vars

(* ============================== claims ================================= *)
\* the store key of the request in slot r
KeyOf(r) ==
    RateLimitKey(get_client_id(reqs[r].user_id, reqs[r].forwarded, reqs[r].client),
                 reqs[r].path)

\* slot r takes its rate limiting step on a path that is not exempt
RateLimitStep(r) ==
    /\ reqs[r].pc = "ratelimit"
    /\ reqs'[r].pc # "ratelimit"
    /\ ~should_skip_rate_limit(reqs[r].path)

\* C1: once the stored count of a key is >= max_requests, a further request
\* on that key inside the window is thrown out with RateLimitException: the
\* next app is not called and the key's counter and expiry stay as they were.
C1_ThrottledAtLimit ==
    [][\A r \in Slots :
         (/\ RateLimitStep(r)
          /\ KeyOf(r) \in DOMAIN store
          /\ store[KeyOf(r)][1] >= max_requests
          /\ store[KeyOf(r)][2] > now)
         => /\ reqs'[r].pc = "done"
            /\ reqs'[r].exc = "RateLimitException"
            /\ reqs'[r].rl_calls = 0
            /\ KeyOf(r) \in DOMAIN store'
            /\ store'[KeyOf(r)] = store[KeyOf(r)]]_vars

\* C1 witness: a request was thrown out while its key is at the limit, in window
C1_Witness ==
    \E r \in Slots :
        /\ reqs[r].pc = "done"
        /\ reqs[r].exc = "RateLimitException"
        /\ reqs[r].rl_calls = 0
        /\ reqs[r].key \in DOMAIN store
        /\ store[reqs[r].key][1] >= max_requests
        /\ store[reqs[r].key][2] > now

\* C2 (as stated): the request after max_requests admitted ones is throttled
\* inside the window, and once the clock is more than the window past the last
\* admitted request the next request on the key is admitted and leaves the
\* counter at 1.
C2_AdmittedAfterWindow ==
    [][\A r \in Slots :
         (/\ RateLimitStep(r)
          /\ KeyOf(r) \in DOMAIN store
          /\ store[KeyOf(r)][1] >= max_requests)
         => IF store[KeyOf(r)][2] > now
            THEN reqs'[r].exc = "RateLimitException"
            ELSE (store[KeyOf(r)][2] < now)
                 => /\ reqs'[r].pc = "logging"
                    /\ store'[KeyOf(r)][1] = 1]_vars

\* C3 (as stated): get returns count 0 for every key whose entry has
\* expiry <= now, whether or not the periodic cleanup has run.
C3_LazyExpiry ==
    \A k \in DOMAIN store :
        store[k][2] <= now
        => get([store |-> store, last_cleanup |-> last_cleanup], k, now).value[1] = 0

\* the store as increment finds it in the rate limiting step (get has run)
StoreAtIncrement(r) ==
    get([store |-> store, last_cleanup |-> last_cleanup], KeyOf(r), now).S.store

\* C4 (as stated): increment leaves count 1 for an absent or expired key and
\* c + 1 for a live entry of count c; the expiry becomes now + window and the
\* count returned is the count stored.
C4_IncrementContract ==
    [][\A r \in Slots :
         (RateLimitStep(r) /\ reqs'[r].pc = "logging")
         => LET k == KeyOf(r)
                before == StoreAtIncrement(r)
            IN  /\ store'[k][1] =
                      IF k \in DOMAIN before /\ before[k][2] > now
                      THEN before[k][1] + 1
                      ELSE 1
                /\ store'[k][2] = now + period
                /\ reqs'[r].count = store'[k][1]]_vars

\* C5: under any interleaving of requests in flight on one key no increment
\* is lost (the stored count is the number of requests forwarded since the
\* entry was created) and at most max_requests of them are forwarded.
C5_NoLostIncrement ==
    \A k \in DOMAIN store :
        /\ k \in DOMAIN admitted
        /\ store[k][1] = admitted[k]
        /\ admitted[k] <= max_requests

\* C5 witness: two admitted requests on one key are in flight together and a
\* third one on that key was thrown out
C5_Witness ==
    \E r1, r2 \in Slots :
        /\ r1 # r2
        /\ reqs[r1].pc = "route"
        /\ reqs[r2].pc = "route"
        /\ reqs[r1].key = reqs[r2].key
        /\ reqs[r1].key \in DOMAIN store
        /\ reqs[r1].count # reqs[r2].count
        /\ store[reqs[r1].key][1] = 2

\* a Bearer token that decode_token or the expiry test turns down at time t
FailsVerification(auth, t) ==
    /\ auth.scheme = "Bearer"
    /\ \/ auth.token.kind # "jwt"
       \/ auth.token.sig # "good"
       \/ auth.token.exp < t

\* a Bearer token that is well signed and unexpired at time t
Verifies(auth, t) ==
    /\ auth.scheme = "Bearer"
    /\ auth.token.kind = "jwt"
    /\ auth.token.sig = "good"
    /\ auth.token.exp >= t

\* slot r takes its authentication middleware step
AuthStep(r) == reqs[r].pc = "auth" /\ reqs'[r].pc # "auth"

\* slot r runs its route
RouteStep(r) == reqs[r].pc = "route" /\ reqs'[r].pc # "route"

\* C6 (as stated): the authentication middleware never rejects: a request
\* whose Bearer token fails verification is passed on exactly once, with no
\* user id in its state, and the stage raises nothing.
C6_SoftStageNeverRejects ==
    [][\A r \in Slots :
         (AuthStep(r) /\ FailsVerification(reqs[r].auth, now))
         => /\ reqs'[r].pc = "ratelimit"
            /\ reqs'[r].auth_calls = 1
            /\ reqs'[r].user_id = <<>>
            /\ reqs'[r].exc = "None"]_vars

\* C7 (as stated): a request with a well signed, unexpired Bearer token leaves
\* the authentication middleware with user_id = the token's subject.
C7_IdentityWritten ==
    [][\A r \in Slots :
         (AuthStep(r) /\ Verifies(reqs[r].auth, now))
         => reqs'[r].user_id = <<reqs[r].auth.token.sub>>]_vars

\* C8 (as stated): at the hard-check route a missing, malformed, wrongly
\* signed or expired token is answered 401 with the challenge header and the
\* handler does not run; the soft stage passes the same token as anonymous.
C8_HardCheckRejects401 ==
    [][\A r \in Slots :
         /\ (/\ RouteStep(r)
             /\ reqs[r].path = PathMe
             /\ (reqs[r].auth.scheme # "Bearer" \/ FailsVerification(reqs[r].auth, now)))
            => /\ reqs'[r].exc = "AuthenticationException"
               /\ reqs'[r].status = 401
               /\ reqs'[r].challenge
               /\ ~reqs'[r].handler
         /\ (AuthStep(r) /\ FailsVerification(reqs[r].auth, now))
            => (reqs'[r].pc = "ratelimit" /\ reqs'[r].user_id = <<>>)]_vars

\* C9 (as stated): the hard dependency turns down a well signed, unexpired
\* token of type "refresh" with an authentication error; it resolves no user.
C9_RefreshTokenRejected ==
    [][\A r \in Slots :
         (/\ RouteStep(r)
          /\ reqs[r].path = PathMe
          /\ Verifies(reqs[r].auth, now)
          /\ reqs[r].auth.token.type = "refresh")
         => /\ reqs'[r].exc = "AuthenticationException"
            /\ reqs'[r].user = <<>>]_vars

\* C10 (as stated): a valid unexpired access token whose subject has no user
\* record is answered 401, not 404 and not 500.
C10_DeletedUser401 ==
    [][\A r \in Slots :
         (/\ RouteStep(r)
          /\ reqs[r].path = PathMe
          /\ Verifies(reqs[r].auth, now)
          /\ reqs[r].auth.token.type # "refresh"
          /\ reqs[r].auth.token.sub \notin DOMAIN table)
         => /\ reqs'[r].exc = "AuthenticationException"
            /\ reqs'[r].status = 401]_vars

\* the order of the stages as the claim has it, outermost first
StatedOrder == <<"logging", "ratelimiting", "authentication", "router">>

\* C11 (as stated): a request enters the logging stage first, then rate
\* limiting, then authentication, then the router, so a request the rate
\* limiting stage throws out has passed through the logging stage.
C11_LoggingOutermost ==
    \A r \in Slots :
        /\ \A i \in DOMAIN reqs[r].stages : reqs[r].stages[i] = StatedOrder[i]
        /\ reqs[r].exc = "RateLimitException" => reqs[r].log_calls = 1

\* the entry of a comma-separated list before its first comma, without the
\* blanks around it: the characters from the first to the last non-blank one
FirstEntryTrimmed(h) ==
    LET commas == {i \in DOMAIN h : h[i] = ","}
        end == IF commas = {} THEN Len(h)
               ELSE (CHOOSE i \in commas : \A j \in commas : i <= j) - 1
        solid == {i \in 1..end : h[i] # " "}
    IN  IF solid = {} THEN <<>>
        ELSE SubSeq(h, CHOOSE i \in solid : \A j \in solid : i <= j,
                       CHOOSE i \in solid : \A j \in solid : i >= j)

\* the key the claim gives a request whose forwarded header counts as
\* present when Present holds
StatedKey(present) ==
    IF ident.user_id # <<>> THEN <<"u", "s", "e", "r", ":">> \o ident.user_id[1]
    ELSE IF present THEN <<"i", "p", ":">> \o FirstEntryTrimmed(ident.forwarded[1])
    ELSE IF ident.client # <<>> THEN <<"i", "p", ":">> \o ident.client[1]
    ELSE <<"i", "p", ":", "u", "n", "k", "n", "o", "w", "n">>

\* C12 (as stated): the key is "user:" + id when a user id is present,
\* whatever X-Forwarded-For says; otherwise "ip:" + the trimmed first entry of
\* X-Forwarded-For when that header is present; otherwise "ip:" + the peer
\* address, "ip:unknown" without one; resolving twice gives the same key.
C12_ClientIdAsStated ==
    \A i \in DOMAIN ident.keys : ident.keys[i] = StatedKey(ident.forwarded # <<>>)

\* C12 (amended): as stated, with an X-Forwarded-For header of empty value
\* treated like an absent one.
C12_ClientId ==
    \A i \in DOMAIN ident.keys :
        ident.keys[i] = StatedKey(ident.forwarded # <<>> /\ ident.forwarded[1] # <<>>)

\* C12 witness: a request with a user id and a forwarded header was resolved
\* twice
C12_Witness ==
    /\ ident.user_id = <<User1>>
    /\ ident.forwarded = <<Forwarded12>>
    /\ Len(ident.keys) = 2
    /\ ident.keys[1] = <<"u", "s", "e", "r", ":">> \o User1

\* the path starts with an entry of the allow-list the claim names
ExemptPath(path) ==
    \/ StartsWith(path, <<"/", "d", "o", "c", "s">>)
    \/ StartsWith(path, <<"/", "o", "p", "e", "n", "a", "p", "i", ".", "j", "s", "o", "n">>)
    \/ StartsWith(path, <<"/", "r", "e", "d", "o", "c">>)
    \/ StartsWith(path, <<"/", "h", "e", "a", "l", "t", "h">>)

\* C13: the rate limiting step of a request on an exempt path hands the
\* request to the next stage and leaves the store as it was: no counter is
\* read (the cleanup that a read runs does not happen), none is written, and
\* no rate limit headers are prepared, whatever the store holds.
C13_ExemptPathBypass ==
    [][\A r \in Slots :
         (/\ reqs[r].pc = "ratelimit"
          /\ reqs'[r].pc # "ratelimit"
          /\ ExemptPath(reqs[r].path))
         => /\ store' = store
            /\ last_cleanup' = last_cleanup
            /\ admitted' = admitted
            /\ reqs'[r].pc = "logging"
            /\ reqs'[r].exc = "None"
            /\ reqs'[r].count = 0]_vars

\* C13 witness: a /health request was forwarded for a client whose key on
\* another route is at the limit
C13_Witness ==
    \E r \in Slots :
        LET k == RateLimitKey(get_client_id(reqs[r].user_id, reqs[r].forwarded,
                                            reqs[r].client), PathMe)
        IN  /\ reqs[r].path = PathHealth
            /\ reqs[r].rl_calls = 1
            /\ k \in DOMAIN store
            /\ store[k][1] >= max_requests

\* C14 (as stated): a request the rate limiting stage throws out reaches the
\* client as 429 RATE_LIMIT_EXCEEDED, not as a 500.
C14_Throttled429 ==
    \A r \in Slots :
        (reqs[r].pc = "done" /\ reqs[r].raised = "RateLimitException")
        => /\ reqs[r].status = 429
           /\ reqs[r].code = "RATE_LIMIT_EXCEEDED"

\* the values of the headers of that name, in a list of (name, value) pairs
HeaderValues(headers, name) ==
    {headers[i][2] : i \in {j \in DOMAIN headers : headers[j][1] = name}}

\* the number of headers of that name
HeaderCount(headers, name) ==
    Cardinality({j \in DOMAIN headers : headers[j][1] = name})

\* the records of that kind among the log records of a request
RecordsOf(records, kind) ==
    {i \in DOMAIN records : records[i].kind = kind}

\* the request in slot r went through the logging stage on a path the stage
\* logs and ended with a response that came out through the stage
CompletedLogged(r) ==
    /\ reqs[r].pc = "done"
    /\ reqs[r].log_calls = 1
    /\ ~StartsWith(reqs[r].path, <<"/", "h", "e", "a", "l", "t", "h">>)
    /\ ~StartsWith(reqs[r].path, <<"/", "s", "t", "a", "t", "i", "c">>)
    /\ reqs[r].raised # "CancelledError"
    /\ AnsweredInside(reqs[r].raised, reqs[r].origin)

\* C15: for a request the logging stage handled on a path it logs and that
\* ended with a response, the request id generated on entry is the id in the
\* request context, the id of the one "completed" record and the one value
\* of the X-Request-ID header.
C15_RequestIdEndToEnd ==
    \A r \in Slots :
        CompletedLogged(r)
        => /\ reqs[r].request_id = <<reqs[r].seq>>
           /\ reqs[r].state_request_id = <<reqs[r].seq>>
           /\ \E i \in DOMAIN reqs[r].records :
                 /\ RecordsOf(reqs[r].records, "completed") = {i}
                 /\ reqs[r].records[i].request_id = reqs[r].seq
                 /\ reqs[r].records[i].status_code = reqs[r].status
           /\ HeaderValues(reqs[r].headers, "X-Request-ID") = {reqs[r].seq}

\* C15 witness: the second request of a behaviour ended with a 200 that
\* carries its id
C15_Witness ==
    \E r \in Slots :
        /\ CompletedLogged(r)
        /\ reqs[r].seq = 2
        /\ reqs[r].status = 200
        /\ HeaderValues(reqs[r].headers, "X-Request-ID") = {2}

\* the step in which what is downstream of the logging stage ends for slot r
DownstreamEnds(r) == reqs[r].pc = "route" /\ reqs'[r].pc = "done"

\* C16: when what is downstream of the logging stage raises an exception, the
\* stage adds one "failed" record with the request id and the duration, lets
\* the same exception go on outward and logs no "completed" record.
C16_FailedThenReraised ==
    [][\A r \in Slots :
         (/\ DownstreamEnds(r)
          /\ reqs[r].logged
          /\ reqs'[r].raised \notin {"None", "CancelledError"}
          /\ ~AnsweredInside(reqs'[r].raised, reqs'[r].origin))
         => /\ reqs'[r].records =
                  Append(reqs[r].records,
                         [kind |-> "failed", request_id |-> reqs[r].seq, status_code |-> 0,
                          duration_ms |-> (now - reqs[r].start_time) * 1000])
            /\ reqs'[r].exc = reqs'[r].raised
            /\ RecordsOf(reqs'[r].records, "completed") = {}]_vars

\* C16 witness: the route raised ValueError one second after the request was
\* logged as started, and the failed record says so
C16_Witness ==
    \E r \in Slots :
        /\ reqs[r].pc = "done"
        /\ reqs[r].raised = "ValueError"
        /\ reqs[r].origin = "route"
        /\ \E i \in RecordsOf(reqs[r].records, "failed") :
              reqs[r].records[i].duration_ms = 1000

\* C17 (as stated): when what is downstream of the logging stage is
\* cancelled, the stage still adds a "failed" record for the request.
C17_FailedOnCancellation ==
    [][\A r \in Slots :
         (/\ DownstreamEnds(r)
          /\ reqs[r].logged
          /\ reqs'[r].raised = "CancelledError")
         => RecordsOf(reqs'[r].records, "failed") # {}]_vars

\* C18: the response of a request that the rate limiting stage admitted and
\* the logging stage logged carries the headers the application set and,
\* once each, X-RateLimit-Limit, X-RateLimit-Remaining, X-RateLimit-Reset and
\* X-Request-ID.
C18_HeadersAdditive ==
    \A r \in Slots :
        (CompletedLogged(r) /\ reqs[r].count > 0)
        => /\ HeaderValues(reqs[r].headers, "content-type") = {"application/json"}
           /\ reqs[r].challenge
              => HeaderValues(reqs[r].headers, "WWW-Authenticate") = {"Bearer"}
           /\ HeaderValues(reqs[r].headers, "X-RateLimit-Limit") = {max_requests}
           /\ HeaderCount(reqs[r].headers, "X-RateLimit-Remaining") = 1
           /\ HeaderCount(reqs[r].headers, "X-RateLimit-Reset") = 1
           /\ HeaderCount(reqs[r].headers, "X-Request-ID") = 1
           /\ HeaderCount(reqs[r].headers, "X-RateLimit-Limit") = 1

\* C18 witness: a 401 with its WWW-Authenticate header, the rate limit
\* headers and the request id
C18_Witness ==
    \E r \in Slots :
        /\ CompletedLogged(r)
        /\ reqs[r].count = 2
        /\ reqs[r].status = 401
        /\ HeaderValues(reqs[r].headers, "WWW-Authenticate") = {"Bearer"}
        /\ HeaderValues(reqs[r].headers, "X-RateLimit-Remaining") = {max_requests - 2}

\* C19: an exception that no stage and no handler inside the stages turns
\* into a response reaches the client as the 500 envelope of the outermost
\* handler: code SERVER_ERROR, message "An unexpected error occurred", never
\* the message of the exception.
C19_UniformServerError ==
    \A r \in Slots :
        (/\ reqs[r].pc = "done"
         /\ reqs[r].raised \notin {"None", "CancelledError"}
         /\ ~AnsweredInside(reqs[r].raised, reqs[r].origin))
        => /\ reqs[r].status = 500
           /\ reqs[r].code = "SERVER_ERROR"
           /\ reqs[r].message = "An unexpected error occurred"
           /\ reqs[r].message # ExcMessage(reqs[r].raised)

\* C19 witness: ValueError left the authentication stage, the first stage a
\* request enters, and the client got the 500 envelope
C19_Witness ==
    \E r \in Slots :
        /\ reqs[r].pc = "done"
        /\ reqs[r].raised = "ValueError"
        /\ reqs[r].origin = "middleware"
        /\ reqs[r].stages = <<"authentication">>
        /\ reqs[r].status = 500

\* x held between lo and hi
Clamp(x, lo, hi) == IF x < lo THEN lo ELSE IF x > hi THEN hi ELSE x

\* C20: every user item has level = clamp(floor(xp / 100) + 1, 1, 100), in
\* every state that XP grants, profile updates, logins and game-played
\* increments reach, however their reads and writes interleave; XP 0 gives
\* level 1, 250 gives 3 and 10000 gives 100.
C20_LevelFromXp ==
    /\ \A u \in DOMAIN table :
          table[u].level = Clamp((table[u].xp_points \div 100) + 1, 1, 100)
    /\ \A w \in Workers :
          ops[w].pc = "update_xp"
          => ops[w].new_level = Clamp((ops[w].new_xp \div 100) + 1, 1, 100)
    /\ calculate_level(0) = 1
    /\ calculate_level(250) = 3
    /\ calculate_level(10000) = 100

\* C20 witness: the user stands at 10000 XP and level 100 after a grant, a
\* game was recorded, and another grant computed from an older read is
\* about to be written
C20_Witness ==
    /\ table[User1].xp_points = 10000
    /\ table[User1].level = 100
    /\ table[User1].games_played = 4
    /\ \E w \in Workers : ops[w].pc = "update_xp" /\ ops[w].new_xp = 250

C22_CreatedOnFirstLogin ==
    [][\A w \in Workers :
         (ops[w].pc = "create_or_update" /\ ops'[w].pc = "idle")
         => IF \E id \in DOMAIN table : table[id].email = ops[w].email
            THEN DOMAIN table' = DOMAIN table
            ELSE /\ ops'[w].exc = "None"
                 /\ \E id \in DOMAIN table' \ DOMAIN table :
                       /\ DOMAIN table' = DOMAIN table \cup {id}
                       /\ table'[id].email = ops[w].email
                       /\ table'[id].xp_points = 0
                       /\ table'[id].level = 1
                       /\ table'[id].games_played = 0]_vars

\* C29 (as stated): no XP grant and no game-played increment is lost when
\* calls run at once: the write of update_xp raises xp_points by the grant
\* over the value the item holds at the write, and the write of
\* increment_games_played raises games_played by one.
C29_NoLostUpdate ==
    [][\A w \in Workers :
         /\ (ops[w].pc = "update_xp" /\ ops'[w].pc = "idle")
            => table'[ops[w].user_id[1]].xp_points =
                  table[ops[w].user_id[1]].xp_points + ops[w].xp_increase
         /\ (ops[w].pc = "games_played" /\ ops'[w].pc = "idle")
            => table'[ops[w].user_id[1]].games_played =
                  table[ops[w].user_id[1]].games_played + 1]_vars

\* max(0, max_requests - count)
Remaining(count) == IF max_requests - count > 0 THEN max_requests - count ELSE 0

\* C23 (as stated): the response of an admitted request carries
\* X-RateLimit-Limit = max_requests and X-RateLimit-Remaining =
\* max(0, max_requests - count) for the count its own increment returned;
\* the first request admitted in a window has count 1 and so reports
\* max_requests - 1; the count a request holds is not changed by the steps
\* of other requests.
C23_RemainingHeader ==
    [][\A r \in Slots :
         /\ (RateLimitStep(r) /\ reqs'[r].pc = "logging")
            => /\ reqs'[r].count = store'[KeyOf(r)][1]
               /\ (KeyOf(r) \notin DOMAIN store \/ store[KeyOf(r)][2] <= now)
                  => Remaining(reqs'[r].count) = max_requests - 1
         /\ reqs[r].pc \in {"logging", "route"} => reqs'[r].count = reqs[r].count
         /\ (/\ reqs[r].pc = "route"
             /\ reqs'[r].pc = "done"
             /\ reqs[r].count > 0
             /\ AnsweredInside(reqs'[r].raised, reqs'[r].origin))
            => /\ HeaderValues(reqs'[r].headers, "X-RateLimit-Remaining")
                     = {Remaining(reqs[r].count)}
               /\ HeaderValues(reqs'[r].headers, "X-RateLimit-Limit") = {max_requests}]_vars

\* the terminal records with that request id
TerminalRecords(records, id) ==
    {i \in DOMAIN records :
        records[i].kind \in {"completed", "failed"} /\ records[i].request_id = id}

\* C24 (as stated): when a logged request leaves the logging stage its
\* "started" record has been followed by exactly one "completed" or "failed"
\* record with the same request id.
C24_OneTerminalRecord ==
    [][\A r \in Slots :
         (DownstreamEnds(r) /\ reqs[r].logged)
         => /\ \E i \in DOMAIN reqs'[r].records :
                  /\ reqs'[r].records[i].kind = "started"
                  /\ reqs'[r].records[i].request_id = reqs[r].seq
            /\ Cardinality(TerminalRecords(reqs'[r].records, reqs[r].seq)) = 1]_vars

\* C25: housekeeping runs only when now - last_cleanup exceeds the interval
\* and then sets last_cleanup to now, so two runs are more than an interval
\* apart; a run drops every entry with expiry <= now and keeps every entry
\* with expiry > now with its count (the step's own key may be counted once
\* more, or re-created at 1 after it was dropped); a step without a run
\* drops nothing.
C25_Housekeeping ==
    [][IF last_cleanup' # last_cleanup
       THEN /\ now - last_cleanup > cleanup_interval
            /\ last_cleanup' = now
            /\ \A k \in DOMAIN store :
                  IF store[k][2] > now
                  THEN /\ k \in DOMAIN store'
                       /\ \/ store'[k] = store[k]
                          \/ store'[k] = <<store[k][1] + 1, now + period>>
                  ELSE \/ k \notin DOMAIN store'
                       \/ store'[k] = <<1, now + period>>
       ELSE \A k \in DOMAIN store : k \in DOMAIN store']_vars

\* C25 witness: the cleanup at cleanup_interval + 1 dropped a key last hit
\* at 0, which the request that ran it re-created at count 1, and kept a key
\* hit a second earlier
C25_Witness ==
    /\ last_cleanup = cleanup_interval + 1
    /\ nreq = 3
    /\ \E k1, k2 \in DOMAIN store :
          /\ store[k1] = <<1, cleanup_interval + 1 + period>>
          /\ store[k2] = <<1, cleanup_interval + period>>

C27_KeysIsolated ==
    [][\A r \in Slots :
         RateLimitStep(r)
         => /\ \A k \in DOMAIN store :
                  (k # KeyOf(r) /\ store[k][2] > now)
                  => (k \in DOMAIN store' /\ store'[k] = store[k])
            /\ \A k \in DOMAIN store' : k \in DOMAIN store \/ k = KeyOf(r)
            /\ reqs'[r].exc = "RateLimitException"
               => /\ KeyOf(r) \in DOMAIN store
                  /\ store[KeyOf(r)][1] >= max_requests]_vars

\* C27 witness: a request on a key at the limit was thrown out while the
\* entry of another key, made earlier in the same window, still stands at 1
C27_Witness ==
    \E r \in Slots, k \in DOMAIN store :
        /\ reqs[r].pc = "done"
        /\ reqs[r].exc = "RateLimitException"
        /\ reqs[r].key \in DOMAIN store
        /\ k # reqs[r].key
        /\ store[reqs[r].key] = <<max_requests, now + period>>
        /\ store[k] = <<1, now + period>>

\* the control paths of the authentication stage the claim lists: a skipped
\* path, no Bearer header, a well signed token that is expired or valid
ListedAuthPath(q) ==
    \/ should_skip_auth(q.path)
    \/ q.auth.scheme # "Bearer"
    \/ (q.auth.token.kind = "jwt" /\ q.auth.token.sig = "good")

\* C28 (as stated): no stage calls the next app more than once; the
\* authentication stage calls it exactly once on a skipped path, with no
\* header, with an expired token and with a valid token; the logging stage
\* calls it exactly once; the rate limiting stage calls it once when it
\* admits and not at all when it throttles.
C28_DownstreamOnce ==
    [][\A r \in Slots :
         /\ reqs'[r].auth_calls <= 1
         /\ reqs'[r].rl_calls <= 1
         /\ reqs'[r].log_calls <= 1
         /\ (reqs[r].pc = "auth" /\ reqs'[r].pc # "auth" /\ ListedAuthPath(reqs[r]))
            => reqs'[r].auth_calls = 1
         /\ (reqs[r].pc = "ratelimit" /\ reqs'[r].pc # "ratelimit")
            => reqs'[r].rl_calls = IF reqs'[r].raised = "RateLimitException" THEN 0 ELSE 1
         /\ (reqs[r].pc = "logging" /\ reqs'[r].pc # "logging")
            => reqs'[r].log_calls = 1]_vars

\* the same calls on the listed paths other than the expired token
C28_DownstreamOnceUnexpired ==
    [][\A r \in Slots :
         /\ reqs'[r].auth_calls <= 1
         /\ reqs'[r].rl_calls <= 1
         /\ reqs'[r].log_calls <= 1
         /\ (/\ reqs[r].pc = "auth" /\ reqs'[r].pc # "auth" /\ ListedAuthPath(reqs[r])
             /\ (should_skip_auth(reqs[r].path) \/ ~FailsVerification(reqs[r].auth, now)))
            => reqs'[r].auth_calls = 1
         /\ (reqs[r].pc = "ratelimit" /\ reqs'[r].pc # "ratelimit")
            => reqs'[r].rl_calls = IF reqs'[r].raised = "RateLimitException" THEN 0 ELSE 1
         /\ (reqs[r].pc = "logging" /\ reqs'[r].pc # "logging")
            => reqs'[r].log_calls = 1]_vars

\* C30 (as stated): a PUT or DELETE on /users/{user_id} by an authenticated
\* caller whose id differs from user_id is answered 403 and leaves the table
\* as it was; when the ids are equal the update or the deletion is carried
\* out on that record.
C30_OwnerOnly ==
    [][\A r \in Slots :
         (/\ reqs[r].pc = "route"
          /\ reqs'[r].pc = "done"
          /\ reqs[r].method \in {"PUT", "DELETE"}
          /\ get_current_user(reqs[r].auth, table, now).exc = "None")
         => LET caller == get_current_user(reqs[r].auth, table, now).user[1]
                user_id == path_user_id(reqs[r].path)
            IN  IF caller # user_id
                THEN reqs'[r].status = 403 /\ table' = table
                ELSE IF reqs[r].method = "DELETE"
                THEN user_id \notin DOMAIN table'
                ELSE /\ user_id \in DOMAIN table'
                     /\ table'[user_id].name = reqs[r].body[1]
                     /\ table'[user_id].updated_at = <<now>>]_vars

\* an owner-only route never changes the record of anyone but the caller
C30_OthersUntouched ==
    [][\A r \in Slots :
         (reqs[r].pc = "route" /\ reqs'[r].pc = "done"
          /\ reqs[r].method \in {"PUT", "DELETE"})
         => \A id \in DOMAIN table :
               (get_current_user(reqs[r].auth, table, now).user # <<id>>)
               => (id \in DOMAIN table' /\ table'[id] = table[id])]_vars

====
